---------------------------- MODULE Spec2Model ----------------------------
(***************************************************************************)
(* Model of write_channels (src/src/main.rs): the contact-group mapper,    *)
(* the zone grouping, the zone rebalancing loop and the zone table output. *)
(*                                                                         *)
(* A Rust String is modelled as the sequence of its bytes, so that the     *)
(* byte-wise ordering of String, split(' '), parse::<u32>() and format!()  *)
(* are computed as the program computes them.                              *)
(***************************************************************************)
EXTENDS Integers, Sequences, FiniteSets, Bags, TLC

(***************************************************************************)
(* Bounds of the model.                                                    *)
(***************************************************************************)
MaxLen == 3          \* short inputs: every sequence of at most MaxLen fields

(***************************************************************************)
(* Program constants.                                                      *)
(***************************************************************************)
MergeThreshold == 50       \* clusters[0].0 + clusters[1].0 < 50
SplitThreshold == 100      \* clusters[last].0 > 100
MinClusters == 2           \* clusters.len() > 2
SP == 32                   \* ' '
SLASH == 47                \* '/'
USCORE == 95               \* '_'
PLUS == 43                 \* '+', the sign parse::<u32>() accepts
ZERO == 48                 \* '0'
PIPE == 124                \* '|'

Default == <<68, 101, 102, 97, 117, 108, 116>>   \* "Default"
Empty == << >>                                    \* ""
U32Max == <<52, 50, 57, 52, 57, 54, 55, 50, 57, 53>>   \* "4294967295"

(***************************************************************************)
(* String helpers.                                                         *)
(***************************************************************************)
\* format!("{}", n) of a non-negative integer: its decimal digits.
RECURSIVE ToDecimal(_)
ToDecimal(n) ==
    IF n < 10 THEN <<ZERO + n>>
    ELSE ToDecimal(n \div 10) \o <<ZERO + (n % 10)>>

\* Ord for String: byte-wise lexicographic, a proper prefix is smaller.
RECURSIVE StrLess(_, _)
StrLess(a, b) ==
    IF b = << >> THEN FALSE
    ELSE IF a = << >> THEN TRUE
    ELSE IF Head(a) # Head(b) THEN Head(a) < Head(b)
    ELSE StrLess(Tail(a), Tail(b))

StrLeq(a, b) == a = b \/ StrLess(a, b)

\* ch.group_id.split(' ') ... num[0]: the text before the first space
\* (the whole string when it holds no space, "" for "").
RECURSIVE FirstToken(_)
FirstToken(s) ==
    IF s = << >> \/ Head(s) = SP THEN << >>
    ELSE <<Head(s)>> \o FirstToken(Tail(s))

IsDigit(c) == c >= ZERO /\ c <= ZERO + 9

RECURSIVE StripZeros(_)
StripZeros(s) ==
    IF Len(s) > 1 /\ Head(s) = ZERO THEN StripZeros(Tail(s)) ELSE s

ParseErr == <<SP>>    \* Err(_): no digit string holds a space

\* str::parse::<u32>(): an optional '+', then one or more decimal digits, the
\* value at most u32::MAX; anything else is Err.  The u32 is represented by
\* its canonical decimal digits (no sign, no leading zero), which are also
\* what format!("{}", n) prints.
ParseU32(tok) ==
    LET body == IF tok # << >> /\ Head(tok) = PLUS THEN Tail(tok) ELSE tok
    IN  IF body = << >> THEN ParseErr
        ELSE IF \E j \in 1..Len(body) : ~IsDigit(body[j]) THEN ParseErr
        ELSE LET v == StripZeros(body)
             IN  IF Len(v) > Len(U32Max)
                    \/ (Len(v) = Len(U32Max) /\ StrLess(U32Max, v))
                 THEN ParseErr
                 ELSE v

(***************************************************************************)
(* Vec helpers.                                                            *)
(***************************************************************************)
\* Vec<String>::sort(): the elements in ascending order by Ord for String.
\* Computed by counting: a string v with b elements below it and c copies
\* of itself fills the places b+1 .. b+c of the sorted vector.
SortStrings(s) ==
    LET runs == {<<v, Cardinality({i \in DOMAIN s : StrLess(s[i], v)}),
                      Cardinality({i \in DOMAIN s : s[i] = v})>> :
                    v \in {s[i] : i \in DOMAIN s}}
    IN  [p \in 1..Len(s) |->
            (CHOOSE r \in runs : r[2] < p /\ p <= r[2] + r[3])[1]]

\* Ord for (usize, String): size first, the key breaks ties.
ClusterLess(c, d) ==
    c[1] < d[1] \/ (c[1] = d[1] /\ StrLess(c[2], d[2]))

\* clusters.sort() of the (len, key) pairs collected from zones.iter(): the
\* pairs are pairwise distinct (the keys are), so the sorted vector is the
\* same whatever order the map iterates in.
RECURSIVE SortClusters(_)
SortClusters(S) ==
    IF S = {} THEN << >>
    ELSE LET m == CHOOSE c \in S : \A d \in S \ {c} : ClusterLess(c, d)
         IN  <<m>> \o SortClusters(S \ {m})

Clusters(z) == SortClusters({<<Len(z[k]), k>> : k \in DOMAIN z})

\* keys.sort() of zones.keys()
RECURSIVE SortKeys(_)
SortKeys(S) ==
    IF S = {} THEN << >>
    ELSE LET m == CHOOSE k \in S : \A d \in S \ {k} : StrLess(k, d)
         IN  <<m>> \o SortKeys(S \ {m})

\* chans.join("|")
RECURSIVE Join(_)
Join(s) ==
    IF s = << >> THEN << >>
    ELSE IF Len(s) = 1 THEN s[1]
    ELSE LET h == Len(s) \div 2
         IN  Join(SubSeq(s, 1, h)) \o <<PIPE>> \o Join(SubSeq(s, h + 1, Len(s)))

\* HashMap::insert: the value stored under k afterwards is v, whether or not
\* k was a key before.
MapInsert(m, k, v) ==
    [x \in (DOMAIN m) \cup {k} |-> IF x = k THEN v ELSE m[x]]

\* HashMap::remove
MapRemove(m, k) == [x \in (DOMAIN m) \ {k} |-> m[x]]

EmptyMap == [x \in {} |-> << >>]

(***************************************************************************)
(* Inputs: the channel records read_channels hands to write_channels, and  *)
(* whether --output-groups was given.                                      *)
(***************************************************************************)
F_a == <<97>>                      \* "a"
F_b == <<98>>                      \* "b"
F_ab == <<97, 47, 98>>             \* "a/b"
F_10A == <<49, 48, 32, 65>>        \* "10 A"
F_010B == <<48, 49, 48, 32, 66>>   \* "010 B"
F_20B == <<50, 48, 32, 66>>        \* "20 B"
F_30C == <<51, 48, 32, 67>>        \* "30 C"
F_sp == <<32, 122>>                \* " z"
F_7 == <<55>>                      \* "7"
F_7_1 == <<55, 95, 49>>            \* "7_1"
F_7_2 == <<55, 95, 50>>            \* "7_2"

Fields == {Empty, F_a, F_ab, F_10A, F_010B, F_20B, F_sp}
BigFields == {F_7, F_7_1, F_7_2}
BigCounts == {MergeThreshold + 10, SplitThreshold + 1}
Tails == {<< >>, <<F_a>>, <<F_a, F_b>>}

\* The name of the j-th channel: not in sorted order, with repetitions.
NameAt(j) == ToDecimal((j * 7) % 12)

MkInput(fs) == [j \in 1..Len(fs) |-> [name |-> NameAt(j), group_id |-> fs[j]]]

Rep(f, c) == [j \in 1..c |-> f]

ShortInputs == {MkInput(fs) : fs \in UNION {[1..n -> Fields] : n \in 0..MaxLen}}

ScenarioInput == MkInput(<<F_10A, F_10A, F_20B, Empty, F_30C>>)
CollisionInput == MkInput(<<F_a, F_b, F_ab, F_ab>>)
SizeOrderInput == MkInput(<<F_b, F_a, F_a, F_ab, F_ab>>)

LargeInputs ==
    {MkInput(Rep(f1, c1) \o Rep(f2, c2) \o t) :
        f1 \in BigFields, c1 \in BigCounts,
        f2 \in BigFields, c2 \in BigCounts, t \in Tails}

(***************************************************************************)
(* State.                                                                  *)
(***************************************************************************)
VARIABLES
    input,         \* channels: &[CmChannel], name and group_id of each
    exportGroups,  \* groupname.is_some()
    pos,           \* channels already handled by the for loop
    groups,        \* HashMap<u32, String>
    zones,         \* HashMap<String, Vec<String>>
    contacts,      \* the contact column of the channel rows written so far
    groupOut,      \* the rows written to the groups file
    zoneOut,       \* the rows written to zone.csv
    pc,            \* "read", "balance", "serialize", "done", "abort"
    run,           \* 1 for the first run of the program, 2 for the second
    prevOut        \* what the first run wrote

vars == <<input, exportGroups, pos, groups, zones, contacts, groupOut,
          zoneOut, pc, run, prevOut>>

Output == <<contacts, groupOut, zoneOut>>

Fresh ==
    /\ pos = 0
    /\ groups = EmptyMap
    /\ zones = EmptyMap
    /\ contacts = << >>
    /\ groupOut = << >>
    /\ zoneOut = << >>
    /\ pc = "read"

Init ==
    /\ \/ /\ input \in ShortInputs \cup {ScenarioInput, CollisionInput, SizeOrderInput}
          /\ exportGroups \in BOOLEAN
       \/ /\ input \in LargeInputs
          /\ exportGroups = FALSE
    /\ Fresh
    /\ run = 1
    /\ prevOut = << >>

(***************************************************************************)
(* The for loop over the channels.                                         *)
(***************************************************************************)
\* ContactOf without the lookup: every numeric channel gets its own field.
ContactOfNoReuse(g, group_id) ==
    IF group_id # Empty THEN
        IF ParseU32(FirstToken(group_id)) # ParseErr THEN group_id ELSE Empty
    ELSE Empty

\* let contact: String = ...
ContactOf(g, group_id) ==
    IF group_id # Empty THEN
        LET n == ParseU32(FirstToken(group_id))
        IN  IF n # ParseErr
            THEN IF n \in DOMAIN g THEN g[n] ELSE group_id
            ELSE Empty
    ELSE Empty

\* groups after the contact of the channel was computed
GroupsAfter(g, group_id) ==
    IF group_id # Empty THEN
        LET n == ParseU32(FirstToken(group_id))
        IN  IF n # ParseErr /\ n \notin DOMAIN g
            THEN MapInsert(g, n, group_id)
            ELSE g
    ELSE g

\* ZoneOf testing the whole field, not its first token, for emptiness.
ZoneOfWholeField(group_id) ==
    IF group_id # Empty THEN FirstToken(group_id) ELSE Default

\* let zone = ...
ZoneOf(group_id) ==
    LET num0 == FirstToken(group_id)
    IN  IF num0 # Empty THEN num0 ELSE Default

\* match zones.get_mut(&zone) ...
ZonesAfter(z, zone, name) ==
    IF zone \in DOMAIN z
    THEN [z EXCEPT ![zone] = Append(@, name)]
    ELSE MapInsert(z, zone, <<name>>)

ReadChannel ==
    /\ pc = "read"
    /\ pos < Len(input)
    /\ LET ch == input[pos + 1]
       IN  /\ contacts' = Append(contacts, ContactOf(groups, ch.group_id))
           /\ groups' = GroupsAfter(groups, ch.group_id)
           /\ zones' = ZonesAfter(zones, ZoneOf(ch.group_id), ch.name)
    /\ pos' = pos + 1
    /\ UNCHANGED <<input, exportGroups, groupOut, zoneOut, pc, run, prevOut>>

(***************************************************************************)
(* The groups file.                                                        *)
(***************************************************************************)
\* The orders in which groups.iter() may visit the entries: HashMap iterates
\* in an arbitrary order, which depends on the map's random hasher keys.
IterOrders(m) ==
    {o \in [1..Cardinality(DOMAIN m) -> DOMAIN m] :
        \A x, y \in DOMAIN o : x # y => o[x] # o[y]}

GroupRows(g, o) == [j \in DOMAIN o |-> <<j, o[j], g[o[j]]>>]

WriteGroups ==
    /\ pc = "read"
    /\ pos = Len(input)
    /\ exportGroups
    /\ \E o \in IterOrders(groups) : groupOut' = GroupRows(groups, o)
    /\ pc' = "balance"
    /\ UNCHANGED <<input, exportGroups, pos, groups, zones, contacts, zoneOut,
                   run, prevOut>>

SkipGroups ==
    /\ pc = "read"
    /\ pos = Len(input)
    /\ ~exportGroups
    /\ pc' = "balance"
    /\ UNCHANGED <<input, exportGroups, pos, groups, zones, contacts, groupOut,
                   zoneOut, run, prevOut>>

(***************************************************************************)
(* Rebalance the zones.                                                    *)
(***************************************************************************)
\* MergeFires with the guard on the number of clusters off by one.
MergeFiresFromTwo(cl) ==
    Len(cl) >= MinClusters /\ cl[1][1] + cl[2][1] < MergeThreshold

\* clusters.len() > 2 && (clusters[0].0 + clusters[1].0 < 50)
MergeFires(cl) ==
    Len(cl) > MinClusters /\ cl[1][1] + cl[2][1] < MergeThreshold

\* MergeKey with the two keys exchanged.
MergeKeySwapped(k0, k1) == k1 \o <<SLASH>> \o k0

\* format!("{}/{}", clusters[0].1, clusters[1].1)
MergeKey(k0, k1) == k0 \o <<SLASH>> \o k1

\* zones once head and tail were removed
MergeRemoved(z) ==
    LET cl == Clusters(z)
    IN  MapRemove(MapRemove(z, cl[1][2]), cl[2][2])

\* zones.insert(key, head) returned Some(_): the assertion fails
MergeCollides(z) ==
    LET cl == Clusters(z)
    IN  MergeKey(cl[1][2], cl[2][2]) \in DOMAIN MergeRemoved(z)

\* zones after the removals, the append and the insert
MergeZones(z) ==
    LET cl == Clusters(z)
        head == z[cl[1][2]]
        tail == z[cl[2][2]]
    IN  MapInsert(MergeRemoved(z), MergeKey(cl[1][2], cl[2][2]), head \o tail)

Merge ==
    /\ pc = "balance"
    /\ MergeFires(Clusters(zones))
    /\ zones' = MergeZones(zones)
    /\ pc' = IF MergeCollides(zones) THEN "abort" ELSE "balance"
    /\ UNCHANGED <<input, exportGroups, pos, groups, contacts, groupOut,
                   zoneOut, run, prevOut>>

\* let last = clusters.len() - 1 with no cluster at all: the subtraction
\* overflows (a panic in a debug build) or wraps to usize::MAX, and then
\* clusters[last] is out of bounds (a panic in a release build).
EmptySnapshot ==
    /\ pc = "balance"
    /\ ~MergeFires(Clusters(zones))
    /\ Len(Clusters(zones)) = 0
    /\ pc' = "abort"
    /\ UNCHANGED <<input, exportGroups, pos, groups, zones, contacts, groupOut,
                   zoneOut, run, prevOut>>

\* clusters[last].0 > 100
SplitFires(cl) ==
    Len(cl) > 0 /\ cl[Len(cl)][1] > SplitThreshold

\* format!("{}_{}", clusters[last].1, sub_idx)
SplitKey(k, idx) == k \o <<USCORE>> \o ToDecimal(idx)

\* the value sub_idx has when the search loop breaks, minus one: the first
\* index from idx on whose key is free
RECURSIVE NextFree(_, _, _)
NextFree(z, k, idx) ==
    IF SplitKey(k, idx) \notin DOMAIN z THEN idx ELSE NextFree(z, k, idx + 1)

\* SplitPoint rounding up.
SplitPointCeil(n) == (n + 1) \div 2

\* clusters[last].0 / 2
SplitPoint(n) == n \div 2

SplitZones(z) ==
    LET cl == Clusters(z)
        k == cl[Len(cl)][2]
        n == cl[Len(cl)][1]
        sorted == SortStrings(z[k])
        to_split == SubSeq(sorted, 1, SplitPoint(n))
        second == SubSeq(sorted, SplitPoint(n) + 1, Len(sorted))
        z0 == MapRemove(z, k)
        i1 == NextFree(z0, k, 1)
        z1 == MapInsert(z0, SplitKey(k, i1), to_split)
        i2 == NextFree(z1, k, i1 + 1)
    IN  MapInsert(z1, SplitKey(k, i2), second)

Split ==
    /\ pc = "balance"
    /\ ~MergeFires(Clusters(zones))
    /\ SplitFires(Clusters(zones))
    /\ zones' = SplitZones(zones)
    /\ UNCHANGED <<input, exportGroups, pos, groups, contacts, groupOut,
                   zoneOut, pc, run, prevOut>>

Stop ==
    /\ pc = "balance"
    /\ ~MergeFires(Clusters(zones))
    /\ Len(Clusters(zones)) > 0
    /\ ~SplitFires(Clusters(zones))
    /\ pc' = "serialize"
    /\ UNCHANGED <<input, exportGroups, pos, groups, zones, contacts, groupOut,
                   zoneOut, run, prevOut>>

(***************************************************************************)
(* The zone table.                                                         *)
(***************************************************************************)
ZoneRow(z, i, k) ==
    LET chans == SortStrings(z[k])
    IN  <<i, k, Join(chans), chans[1], chans[Len(chans)]>>

ZoneRows(z) ==
    LET keys == SortKeys(DOMAIN z)
    IN  [i \in 1..Len(keys) |-> ZoneRow(z, i, keys[i])]

Serialize ==
    /\ pc = "serialize"
    /\ zoneOut' = ZoneRows(zones)
    /\ zones' = EmptyMap          \* zones.remove(k) for every key
    /\ pc' = "done"
    /\ UNCHANGED <<input, exportGroups, pos, groups, contacts, groupOut, run,
                   prevOut>>

(***************************************************************************)
(* The program is run a second time on the same input.                     *)
(***************************************************************************)
Rerun ==
    /\ pc = "done"
    /\ run = 1
    /\ run' = 2
    /\ prevOut' = Output
    /\ pos' = 0
    /\ groups' = EmptyMap
    /\ zones' = EmptyMap
    /\ contacts' = << >>
    /\ groupOut' = << >>
    /\ zoneOut' = << >>
    /\ pc' = "read"
    /\ UNCHANGED <<input, exportGroups>>

Next ==
    \/ ReadChannel
    \/ WriteGroups
    \/ SkipGroups
    \/ Merge
    \/ EmptySnapshot
    \/ Split
    \/ Stop
    \/ Serialize
    \/ Rerun

Spec == Init /\ [][Next]_vars

\* The program is single-threaded and never waits: while a step is enabled,
\* it is taken.
FairSpec == Init /\ [][Next]_vars /\ WF_vars(Next)

(***************************************************************************)
(* Definitions used to state the properties.                               *)
(***************************************************************************)
Range(s) == {s[j] : j \in DOMAIN s}

NamesBag(s) == [x \in Range(s) |-> Cardinality({j \in DOMAIN s : s[j] = x})]

RECURSIVE BagOfKeys(_, _)
BagOfKeys(z, K) ==
    IF K = {} THEN EmptyBag
    ELSE LET k == CHOOSE x \in K : TRUE
         IN  NamesBag(z[k]) (+) BagOfKeys(z, K \ {k})

RegistryBag(z) == BagOfKeys(z, DOMAIN z)

InputNames(n) == [j \in 1..n |-> input[j].name]

IsSorted(s) == \A j \in 1..(Len(s) - 1) : StrLeq(s[j], s[j + 1])

\* the text of f before its first space, all of f when it holds none
TextBeforeSpace(f) ==
    LET n == CHOOSE m \in 0..Len(f) :
                 /\ \A j \in 1..m : f[j] # SP
                 /\ (m < Len(f) => f[m + 1] = SP)
    IN  SubSeq(f, 1, n)

AtMerge == pc = "balance" /\ MergeFires(Clusters(zones))

AtSplit ==
    /\ pc = "balance"
    /\ ~MergeFires(Clusters(zones))
    /\ SplitFires(Clusters(zones))

AtRead == pc = "read" /\ pos < Len(input)

(***************************************************************************)
(* C1. Conservation: after the grouping of every channel read so far and   *)
(* after every merge or split of the balancer, the names held by the zones *)
(* of the registry are, as a multiset, exactly the names of the channels   *)
(* read.                                                                   *)
(***************************************************************************)
Conservation ==
    pc \in {"read", "balance", "serialize", "abort"}
        => RegistryBag(zones) = NamesBag(InputNames(pos))

(***************************************************************************)
(* C2. Termination: the balancer loop fires its rules finitely often and   *)
(* then reaches its stop step.                                             *)
(***************************************************************************)
Termination == <>(pc = "serialize")

\* Every iteration that goes round the loop again lowers this measure: a
\* merge removes a cluster, a split replaces a cluster of more than
\* SplitThreshold names by two of about half its size.  So a run that does
\* not panic reaches the stop step.
RECURSIVE SumOfSquares(_, _)
SumOfSquares(z, K) ==
    IF K = {} THEN 0
    ELSE LET k == CHOOSE x \in K : TRUE
         IN  (IF Len(z[k]) > SplitThreshold THEN Len(z[k]) * Len(z[k]) ELSE 0)
                 + SumOfSquares(z, K \ {k})

BalancerRank(z) == Cardinality(DOMAIN z) + SumOfSquares(z, DOMAIN z)

RankDecreases ==
    [][(pc = "balance" /\ pc' = "balance")
          => BalancerRank(zones') < BalancerRank(zones)]_vars

(***************************************************************************)
(* C3. Deterministic ordering: a second run on the same input writes the   *)
(* same channel rows, group rows and zone rows as the first.               *)
(***************************************************************************)
Deterministic ==
    (run = 2 /\ pc = "done") => Output = prevOut

(***************************************************************************)
(* C5. Merge key freshness: whenever the merge rule fires, the key it      *)
(* forms is not a key of the registry.                                     *)
(***************************************************************************)
MergeKeyFresh ==
    AtMerge =>
        LET cl == Clusters(zones)
        IN  (cl[1][2] \o <<SLASH>> \o cl[2][2]) \notin DOMAIN zones

(***************************************************************************)
(* C10. No abort in the balancer: an iteration that reaches the split      *)
(* check has at least one cluster in its snapshot, so clusters[len - 1] is *)
(* in range.                                                               *)
(***************************************************************************)
SplitCheckInRange ==
    (pc = "balance" /\ ~MergeFires(Clusters(zones)))
        => Len(Clusters(zones)) >= 1

(***************************************************************************)
(* C4. Contact dedup: the contact table only grows and an entry never      *)
(* changes; a channel whose leading token parses to an id gets the field   *)
(* of the first channel read with that id, which is the table's entry for  *)
(* it; a channel with an empty field or a non-numeric leading token gets   *)
(* the empty label and adds no entry.                                      *)
(***************************************************************************)
IdOf(f) == ParseU32(TextBeforeSpace(f))

Numeric(f) == f # Empty /\ IdOf(f) # ParseErr

\* the first channel, among those already read, with the id n; 0 when there
\* is none
FirstWithId(n) ==
    LET hasId(i) == Numeric(input[i].group_id) /\ IdOf(input[i].group_id) = n
    IN  IF \E i \in 1..pos : hasId(i)
        THEN CHOOSE i \in 1..pos : hasId(i) /\ \A h \in 1..(i - 1) : ~hasId(h)
        ELSE 0

GroupsGrow ==
    run' = run =>
        \A k \in DOMAIN groups : k \in DOMAIN groups' /\ groups'[k] = groups[k]

FirstLabelWins ==
    AtRead =>
        LET f == input[pos + 1].group_id
            first == FirstWithId(IdOf(f))
            label == IF ~Numeric(f) THEN Empty
                     ELSE IF first = 0 THEN f
                     ELSE input[first].group_id
        IN  /\ contacts' = Append(contacts, label)
            /\ ~Numeric(f) => groups' = groups
            /\ Numeric(f) =>
                  /\ DOMAIN groups' = DOMAIN groups \cup {IdOf(f)}
                  /\ groups'[IdOf(f)] = label

\* C4: every step keeps the entries of the table, and every channel read
\* gets the label of the first channel with its id.
ContactDedup == [][GroupsGrow /\ FirstLabelWins]_vars

\* a channel got the label of an earlier channel with the same id and a
\* different field, and a channel with a non-numeric field got no label
ContactDedupWitness ==
    /\ \E j \in 1..pos : contacts[j] \notin {Empty, input[j].group_id}
    /\ \E j \in 1..pos : input[j].group_id # Empty /\ contacts[j] = Empty

(***************************************************************************)
(* C6. Merge correctness.  As claimed: the two smallest clusters of the    *)
(* snapshot are removed and replaced by one cluster, the concatenation of  *)
(* their lists, under the two keys joined by '/' with the lexicographically*)
(* smaller key first.  As amended: the key is "<k0>/<k1>" with k0 and k1   *)
(* in the order of the (size, key)-sorted snapshot, so that the smaller    *)
(* key comes first when the two sizes are equal.                           *)
(***************************************************************************)
MergedUnder(k0, k1, key) ==
    /\ k0 \notin DOMAIN zones'
    /\ k1 \notin DOMAIN zones'
    /\ DOMAIN zones' = ((DOMAIN zones) \ {k0, k1}) \cup {key}
    /\ zones'[key] = zones[k0] \o zones[k1]
    /\ Len(zones'[key]) = Len(zones[k0]) + Len(zones[k1])

\* C6 as claimed: the merged cluster is stored under "<low>/<high>", the
\* lexicographically smaller key first.
MergeKeyLexicographic ==
    [][AtMerge =>
        LET cl == Clusters(zones)
            k0 == cl[1][2]
            k1 == cl[2][2]
            lo == IF StrLess(k0, k1) THEN k0 ELSE k1
            hi == IF StrLess(k0, k1) THEN k1 ELSE k0
        IN  MergedUnder(k0, k1, lo \o <<SLASH>> \o hi)]_vars

\* C6 as amended: the merged cluster is stored under "<k0>/<k1>", the keys
\* of the two smallest clusters in the order of the sorted snapshot.
MergeKeySnapshotOrder ==
    [][AtMerge =>
        LET cl == Clusters(zones)
            k0 == cl[1][2]
            k1 == cl[2][2]
        IN  /\ MergedUnder(k0, k1, k0 \o <<SLASH>> \o k1)
            /\ \A k \in DOMAIN zones : Len(zones[k0]) <= Len(zones[k])
            /\ \A k \in (DOMAIN zones) \ {k0} : Len(zones[k1]) <= Len(zones[k])
            /\ Len(zones[k0]) = Len(zones[k1]) => StrLess(k0, k1)]_vars

\* "b" (one channel) and "a" (two channels) were merged under "b/a"
MergeWitness ==
    /\ input = SizeOrderInput
    /\ pc = "balance"
    /\ (F_b \o <<SLASH>> \o F_a) \in DOMAIN zones
    /\ zones[F_b \o <<SLASH>> \o F_a] = <<NameAt(1), NameAt(2), NameAt(3)>>

(***************************************************************************)
(* C7. Split correctness: when the split rule fires on the largest cluster,*)
(* of key K and size n, K is removed and two clusters are inserted under   *)
(* two distinct keys "K_a" and "K_b", a < b, that were not keys before     *)
(* ("K_1" and "K_2" when the registry held no key "K_i"); they hold the    *)
(* names of K, the first floor(n/2) of them and the second the rest, each  *)
(* sorted, no name of the first greater than a name of the second; every   *)
(* other zone is left as it was.                                           *)
(***************************************************************************)
Suffixed(k, a) == k \o <<USCORE>> \o ToDecimal(a)

SplitInto(k, a, b) ==
    LET n == Len(zones[k])
        ka == Suffixed(k, a)
        kb == Suffixed(k, b)
    IN  /\ ka \notin DOMAIN zones
        /\ kb \notin DOMAIN zones
        /\ DOMAIN zones' = ((DOMAIN zones) \ {k}) \cup {ka, kb}
        /\ Len(zones'[ka]) = n \div 2
        /\ Len(zones'[kb]) = n - (n \div 2)
        /\ IsSorted(zones'[ka])
        /\ IsSorted(zones'[kb])
        /\ StrLeq(zones'[ka][Len(zones'[ka])], zones'[kb][1])
        /\ NamesBag(zones'[ka]) (+) NamesBag(zones'[kb]) = NamesBag(zones[k])

\* C7: a split replaces the largest cluster by its two sorted halves under
\* two fresh suffixed keys and changes no other zone.
SplitCorrect ==
    [][AtSplit =>
        LET cl == Clusters(zones)
            k == cl[Len(cl)][2]
            idx == 1..(Cardinality(DOMAIN zones) + 2)
        IN  /\ Len(zones[k]) > SplitThreshold
            /\ \A x \in DOMAIN zones : Len(zones[x]) <= Len(zones[k])
            /\ k \notin DOMAIN zones'
            /\ \A x \in (DOMAIN zones) \ {k} :
                  x \in DOMAIN zones' /\ zones'[x] = zones[x]
            /\ \E a, b \in idx : a < b /\ SplitInto(k, a, b)
            /\ (\A a \in idx : Suffixed(k, a) \notin DOMAIN zones)
                  => SplitInto(k, 1, 2)]_vars

\* "7" (101 channels) was split while "7_1" (60 channels) was a key: its
\* halves are "7_2" (50 channels) and "7_3" (51 channels)
SplitWitness ==
    /\ pc = "balance"
    /\ Len(input) = 161
    /\ input[1].group_id = F_7
    /\ input[161].group_id = F_7_1
    /\ DOMAIN zones = {F_7_1, F_7_2, F_7 \o <<USCORE, ZERO + 3>>}
    /\ Len(zones[F_7_1]) = 60
    /\ Len(zones[F_7_2]) = 50
    /\ Len(zones[F_7 \o <<USCORE, ZERO + 3>>]) = 51

(***************************************************************************)
(* C8. Scenario: the fields "10 A", "10 A", "20 B", "", "30 C" are grouped *)
(* into the clusters 10, 20, Default and 30 of sizes 2, 1, 1 and 1, and    *)
(* the balancer stops with exactly two clusters.  As claimed: one is the   *)
(* merge of 20, 30 and Default, the other is 10, unmerged.  As amended:    *)
(* one is "20/30", the merge of 20 and 30, and the other is "Default/10",  *)
(* the merge of Default and 10.                                            *)
(***************************************************************************)
K_10 == <<49, 48>>     \* "10"
K_20 == <<50, 48>>     \* "20"
K_30 == <<51, 48>>     \* "30"

ScenarioGrouped ==
    (pc = "read" /\ pos = Len(input)) =>
        /\ DOMAIN zones = {K_10, K_20, K_30, Default}
        /\ zones[K_10] = <<NameAt(1), NameAt(2)>>
        /\ zones[K_20] = <<NameAt(3)>>
        /\ zones[Default] = <<NameAt(4)>>
        /\ zones[K_30] = <<NameAt(5)>>

\* C8 as claimed: the scenario ends with the cluster 10 unmerged and one
\* cluster holding the channels of 20, Default and 30.
ScenarioTrio ==
    input = ScenarioInput =>
        /\ ScenarioGrouped
        /\ pc = "serialize" =>
              /\ Cardinality(DOMAIN zones) = 2
              /\ K_10 \in DOMAIN zones
              /\ zones[K_10] = <<NameAt(1), NameAt(2)>>
              /\ \E k \in (DOMAIN zones) \ {K_10} :
                    NamesBag(zones[k]) = NamesBag(<<NameAt(3), NameAt(4), NameAt(5)>>)

\* C8 as amended: the scenario ends with the clusters "20/30" and
\* "Default/10".
ScenarioPairs ==
    input = ScenarioInput =>
        /\ ScenarioGrouped
        /\ pc = "serialize" =>
              /\ DOMAIN zones = {K_20 \o <<SLASH>> \o K_30,
                                 Default \o <<SLASH>> \o K_10}
              /\ zones[K_20 \o <<SLASH>> \o K_30] = <<NameAt(3), NameAt(5)>>
              /\ zones[Default \o <<SLASH>> \o K_10]
                    = <<NameAt(4), NameAt(1), NameAt(2)>>

ScenarioWitness ==
    /\ input = ScenarioInput
    /\ pc = "serialize"
    /\ Cardinality(DOMAIN zones) = 2

(***************************************************************************)
(* C9. Zone key derivation: the name of every channel is appended to the   *)
(* list of its zone key, in input order, and no other list changes.  As    *)
(* claimed: the key is "Default" exactly when the group field is empty,    *)
(* and the text before the first space otherwise.  As amended: the key is  *)
(* "Default" exactly when the text before the first space is empty (the    *)
(* field is empty or begins with a space), and that text otherwise.        *)
(***************************************************************************)
GroupedUnder(key) ==
    /\ DOMAIN zones' = (DOMAIN zones) \cup {key}
    /\ zones'[key] =
          (IF key \in DOMAIN zones THEN zones[key] ELSE << >>)
              \o <<input[pos + 1].name>>
    /\ \A k \in (DOMAIN zones) \ {key} : zones'[k] = zones[k]

\* C9 as claimed: the key is "Default" exactly when the field is empty.
ZoneKeyDefaultIffEmptyField ==
    [][AtRead =>
        LET f == input[pos + 1].group_id
        IN  GroupedUnder(IF f = Empty THEN Default ELSE TextBeforeSpace(f))]_vars

\* C9 as amended: the key is "Default" exactly when the first token is
\* empty.
ZoneKeyDefaultIffEmptyToken ==
    [][AtRead =>
        LET f == input[pos + 1].group_id
            tok == TextBeforeSpace(f)
        IN  /\ GroupedUnder(IF tok = Empty THEN Default ELSE tok)
            /\ (tok = Empty) <=> (f = Empty \/ f[1] = SP)]_vars

\* a channel whose field begins with a space was put into "Default", and a
\* channel with a non-numeric field into the zone of its first token
ZoneKeyWitness ==
    /\ pc = "read"
    /\ pos >= 2
    /\ input[pos].group_id = F_sp
    /\ Default \in DOMAIN zones
    /\ zones[Default][Len(zones[Default])] = input[pos].name
    /\ input[pos - 1].group_id = F_ab
    /\ F_ab \in DOMAIN zones

=============================================================================
